---- MODULE Spec2Model ----
(***************************************************************************)
(* CatboostModelArtifact (bentoml/frameworks/catboost.py): an artifact     *)
(* holding at most one reference to a catboost classifier, with pack,      *)
(* load, save, get and set_dependencies.                                   *)
(*                                                                         *)
(* Strings (artifact names, extensions, directories, paths) are sequences  *)
(* of one-character strings, so that os.path.join is computed as posixpath *)
(* computes it.  Object references are integers, None is 0.  The catboost  *)
(* library is an environment: its import succeeds or fails, its save_model *)
(* serialises the classifier's prediction behaviour into a file in the     *)
(* requested format, its load_model parses a file of the requested format  *)
(* into the receiving classifier and raises on anything else.              *)
(***************************************************************************)
EXTENDS Integers, Sequences

VARIABLES libAvailable, name, _model_extension, _model, heap, fs,
          pip_packages, last

vars == <<libAvailable, name, _model_extension, _model, heap, fs,
          pip_packages, last>>

\* ---------------------------------------------------------------- bounds
\* number of classifiers load() may construct in one behaviour
MaxLoads == 2

\* ------------------------------------------------------------- universe
\* the artifact instance ("self"), as a return value of pack and load
Self == 1

None == 0

Sep == "/"

DefaultExtension == <<".", "j", "s", "o", "n">>

Names == {<<"m">>, <<"c", "b">>}

Extensions == {DefaultExtension, <<".", "c", "b", "m">>}

\* base directories handed to save and load: the current directory as the
\* empty string, a relative directory with and without a trailing separator
Dirs == {<<>>, <<"d">>, <<"d", Sep>>}

CatBoostClassifier == "catboost.core.CatBoostClassifier"

OtherClass == "builtins.str"

\* objects of the calling program that exist before any call, each with its
\* class and (pred) what it predicts on a fixed input; classifier instances
\* exist only in a process that could import the library
InitialHeap(avail) ==
    IF avail
    THEN <<[cls |-> CatBoostClassifier, pred |-> 0],
           [cls |-> CatBoostClassifier, pred |-> 1],
           [cls |-> OtherClass, pred |-> 0]>>
    ELSE <<[cls |-> OtherClass, pred |-> 0]>>

\* exceptions
NoExc == "none"
MissingDependencyException == "MissingDependencyException"
InvalidArgument == "InvalidArgument"
AttributeError == "AttributeError"
CatBoostError == "CatBoostError"

\* return values
Raised == [kind |-> "raise", ref |-> 0]
ObjectRef(o) == [kind |-> "object", ref |-> o]
ArtifactRef == [kind |-> "artifact", ref |-> Self]

\* file contents
Missing == [kind |-> "missing", fmt |-> "", pred |-> 0, src |-> 0]
Garbage == [kind |-> "garbage", fmt |-> "", pred |-> 0, src |-> 0]
ModelFile(f, p, o) == [kind |-> "model", fmt |-> f, pred |-> p, src |-> o]

\* --------------------------------------------------------- pure helpers
\* posixpath.join(a, b) as called by os.path.join with two arguments
PathJoin(a, b) ==
    IF Len(b) > 0 /\ b[1] = Sep THEN b
    ELSE IF Len(a) = 0 \/ a[Len(a)] = Sep THEN a \o b
    ELSE a \o <<Sep>> \o b

\* mutant: the path is built with the default extension
_model_file_path_default(base_path) ==
    PathJoin(base_path, name \o DefaultExtension)

\* self._model_file_path(base_path)
_model_file_path(base_path) ==
    PathJoin(base_path, name \o _model_extension)

AllPaths == {PathJoin(d, n \o e) : d \in Dirs, n \in Names, e \in Extensions}

\* mutant: any object passes the type check
isinstance_any(h, model) == model \in DOMAIN h

\* isinstance(model, catboost.core.CatBoostClassifier) on heap h
isinstance(h, model) ==
    /\ model \in DOMAIN h
    /\ h[model].cls = CatBoostClassifier

\* mutant: load derives the format from the configured extension
LoadFormatOfExtension(extension) ==
    IF extension = DefaultExtension THEN "json" ELSE "cbm"

\* the format argument load hands to load_model, and save to save_model
LoadFormat(extension) == "json"

SaveFormat(extension) == "json"

\* model.save_model(fname, format=fmt): the file the library writes
save_model(model, fmt) == ModelFile(fmt, heap[model].pred, model)

\* clf.load_model(fname, fmt): the file parses iff it is a model file
\* written in the requested format
load_model_ok(file, fmt) == file.kind = "model" /\ file.fmt = fmt

\* self.get(): the held reference
get == _model

\* mutant: pack stores only into an empty artifact
pack_store_once(model) == IF _model = None THEN model ELSE _model

\* mutant: pack returns the model
pack_return_model(model) == ObjectRef(model)

\* pack's assignment to self._model and its return value
pack_store(model) == model

pack_return(model) == ArtifactRef

\* mutant: the type check comes before the import
pack_typecheck_first(model, h) ==
    IF ~isinstance(h, model)
    THEN [exc |-> InvalidArgument, held |-> _model, ret |-> Raised]
    ELSE IF ~libAvailable
    THEN [exc |-> MissingDependencyException, held |-> _model, ret |-> Raised]
    ELSE [exc |-> NoExc, held |-> pack_store(model), ret |-> pack_return(model)]

\* mutant: a rejected pack drops the reference held
pack_clear_on_invalid(model, h) ==
    IF ~libAvailable
    THEN [exc |-> MissingDependencyException, held |-> _model, ret |-> Raised]
    ELSE IF ~isinstance(h, model)
    THEN [exc |-> InvalidArgument, held |-> None, ret |-> Raised]
    ELSE [exc |-> NoExc, held |-> pack_store(model), ret |-> pack_return(model)]

\* pack(self, model) on heap h: the exception raised, the reference held
\* afterwards and the value returned
pack(model, h) ==
    IF ~libAvailable
    THEN [exc |-> MissingDependencyException, held |-> _model, ret |-> Raised]
    ELSE IF ~isinstance(h, model)
    THEN [exc |-> InvalidArgument, held |-> _model, ret |-> Raised]
    ELSE [exc |-> NoExc, held |-> pack_store(model), ret |-> pack_return(model)]

\* the record of the latest call: its operation and arguments, the reference
\* held when it was made, the exception it raised, the value it returned and
\* the files it read and wrote
Call(op, obj, dir, exc, ret, rd, wr) ==
    [op |-> op, obj |-> obj, dir |-> dir, before |-> _model,
     exc |-> exc, ret |-> ret, read |-> rd, wrote |-> wr]

\* ----------------------------------------------------------------- Init
\* __init__(self, name, model_extension=".json"): the artifact holds nothing;
\* whether "import catboost" succeeds is a property of the process and does
\* not change while it runs; no file exists yet
Init ==
    /\ libAvailable \in BOOLEAN
    /\ name \in Names
    /\ _model_extension \in Extensions
    /\ _model = None
    /\ heap = InitialHeap(libAvailable)
    /\ fs = [p \in AllPaths |-> Missing]
    /\ pip_packages = {}
    /\ last = Call("init", None, <<>>, NoExc, ObjectRef(None), {}, {})

\* -------------------------------------------------------------- actions
\* pack(self, model, metadata=None)
Pack(model) ==
    LET r == pack(model, heap) IN
    /\ _model' = r.held
    /\ last' = Call("pack", model, <<>>, r.exc, r.ret, {}, {})
    /\ UNCHANGED <<libAvailable, name, _model_extension, heap, fs, pip_packages>>

\* mutant: get hands the reference over and forgets it
GetAndRelease ==
    /\ _model' = None
    /\ last' = Call("get", None, <<>>, NoExc, ObjectRef(get), {}, {})
    /\ UNCHANGED <<libAvailable, name, _model_extension, heap, fs, pip_packages>>

\* get(self): return self._model
Get ==
    /\ last' = Call("get", None, <<>>, NoExc, ObjectRef(get), {}, {})
    /\ UNCHANGED <<libAvailable, name, _model_extension, _model, heap, fs,
                   pip_packages>>

\* set_dependencies(self, env): env.add_pip_packages(['catboost'])
SetDependencies ==
    /\ pip_packages' = pip_packages \cup {"catboost"}
    /\ last' = Call("set_dependencies", None, <<>>, NoExc, ObjectRef(None), {}, {})
    /\ UNCHANGED <<libAvailable, name, _model_extension, _model, heap, fs>>

\* mutant: load drops the held reference before it reads the file
LoadResetFirst(path) ==
    LET fname == _model_file_path(path)
        clf == Len(heap) + 1
        loaded == Append(heap, [cls |-> CatBoostClassifier,
                                pred |-> fs[fname].pred])
        r == pack(clf, loaded)
    IN
    IF ~libAvailable
    THEN /\ last' = Call("load", None, path, MissingDependencyException,
                         Raised, {}, {})
         /\ UNCHANGED <<libAvailable, name, _model_extension, _model, heap,
                        fs, pip_packages>>
    ELSE IF ~load_model_ok(fs[fname], LoadFormat(_model_extension))
    THEN /\ last' = Call("load", None, path, CatBoostError, Raised, {fname}, {})
         /\ _model' = None
         /\ UNCHANGED <<libAvailable, name, _model_extension, heap,
                        fs, pip_packages>>
    ELSE /\ Len(heap) < Len(InitialHeap(libAvailable)) + MaxLoads
         /\ heap' = loaded
         /\ _model' = r.held
         /\ last' = Call("load", clf, path, r.exc, r.ret, {fname}, {})
         /\ UNCHANGED <<libAvailable, name, _model_extension, fs, pip_packages>>

\* load(self, path): the import, then clf = CatBoostClassifier(),
\* clf.load_model(self._model_file_path(path), "json"), return self.pack(clf)
Load(path) ==
    LET fname == _model_file_path(path)
        clf == Len(heap) + 1
        loaded == Append(heap, [cls |-> CatBoostClassifier,
                                pred |-> fs[fname].pred])
        r == pack(clf, loaded)
    IN
    IF ~libAvailable
    THEN /\ last' = Call("load", None, path, MissingDependencyException,
                         Raised, {}, {})
         /\ UNCHANGED <<libAvailable, name, _model_extension, _model, heap,
                        fs, pip_packages>>
    ELSE IF ~load_model_ok(fs[fname], LoadFormat(_model_extension))
    THEN /\ last' = Call("load", None, path, CatBoostError, Raised, {fname}, {})
         /\ UNCHANGED <<libAvailable, name, _model_extension, _model, heap,
                        fs, pip_packages>>
    ELSE /\ Len(heap) < Len(InitialHeap(libAvailable)) + MaxLoads
         /\ heap' = loaded
         /\ _model' = r.held
         /\ last' = Call("load", clf, path, r.exc, r.ret, {fname}, {})
         /\ UNCHANGED <<libAvailable, name, _model_extension, fs, pip_packages>>

\* mutant: save validates that a model is held
SaveChecked(dst) ==
    LET fname == _model_file_path(dst) IN
    IF _model = None
    THEN /\ last' = Call("save", None, dst, InvalidArgument, Raised, {}, {})
         /\ UNCHANGED <<libAvailable, name, _model_extension, _model, heap,
                        fs, pip_packages>>
    ELSE \/ /\ fs' = [fs EXCEPT ![fname] =
                         save_model(_model, SaveFormat(_model_extension))]
            /\ last' = Call("save", None, dst, NoExc, ObjectRef(None), {},
                            {fname})
            /\ UNCHANGED <<libAvailable, name, _model_extension, _model, heap,
                           pip_packages>>
         \/ /\ last' = Call("save", None, dst, CatBoostError, Raised, {}, {})
            /\ UNCHANGED <<libAvailable, name, _model_extension, _model, heap,
                           fs, pip_packages>>

\* save(self, dst): self._model.save_model(self._model_file_path(dst),
\* format="json"); library failures (an untrained model, an unwritable
\* directory, a full disk) propagate, before or in the middle of the write
Save(dst) ==
    LET fname == _model_file_path(dst) IN
    IF _model = None
    THEN /\ last' = Call("save", None, dst, AttributeError, Raised, {}, {})
         /\ UNCHANGED <<libAvailable, name, _model_extension, _model, heap,
                        fs, pip_packages>>
    ELSE \/ /\ fs' = [fs EXCEPT ![fname] =
                         save_model(_model, SaveFormat(_model_extension))]
            /\ last' = Call("save", None, dst, NoExc, ObjectRef(None), {},
                            {fname})
            /\ UNCHANGED <<libAvailable, name, _model_extension, _model, heap,
                           pip_packages>>
         \/ /\ last' = Call("save", None, dst, CatBoostError, Raised, {}, {})
            /\ UNCHANGED <<libAvailable, name, _model_extension, _model, heap,
                           fs, pip_packages>>
         \/ /\ fs' = [fs EXCEPT ![fname] = Garbage]
            /\ last' = Call("save", None, dst, CatBoostError, Raised, {},
                            {fname})
            /\ UNCHANGED <<libAvailable, name, _model_extension, _model, heap,
                           pip_packages>>

Next ==
    \/ \E model \in DOMAIN heap \cup {None} : Pack(model)
    \/ \E path \in Dirs : Load(path)
    \/ \E dst \in Dirs : Save(dst)
    \/ Get
    \/ SetDependencies

Spec == Init /\ [][Next]_vars

\* ------------------------------------------------------------ properties
\* the object is an instance of the classifier type (read off the heap)
IsClassifier(o) == o \in DOMAIN heap /\ heap[o].cls = CatBoostClassifier

\* C1: with the library available, pack(m) of a classifier instance m
\* succeeds whatever was held before, and a get() that follows it returns m
\* itself
C1_PackGetIdentity ==
    [][ /\ (last'.op = "pack" /\ libAvailable /\ IsClassifier(last'.obj))
            => (last'.exc = NoExc /\ _model' = last'.obj)
        /\ (last.op = "pack" /\ last.exc = NoExc /\ last'.op = "get")
            => (last'.exc = NoExc /\ last'.ret = ObjectRef(last.obj)) ]_vars

C1_Witness ==
    /\ last.op = "pack" /\ last.exc = NoExc
    /\ last.before # None /\ last.before # last.obj
    /\ _model = last.obj

\* C2: with the library available, pack(x) of anything that is not a
\* classifier instance raises InvalidArgument and leaves the held reference
\* as it was, so a get() that follows returns what was held before the call
C2_BadPackKeepsReference ==
    [][ /\ (last'.op = "pack" /\ libAvailable /\ ~IsClassifier(last'.obj))
            => (last'.exc = InvalidArgument /\ _model' = _model)
        /\ (last.op = "pack" /\ last.exc = InvalidArgument /\ last'.op = "get")
            => last'.ret = ObjectRef(last.before) ]_vars

C2_Witness ==
    /\ last.op = "pack" /\ last.exc = InvalidArgument
    /\ last.before # None /\ _model = last.before

Operations == {"pack", "load", "save", "get", "set_dependencies"}

\* C3 as stated: with the library unavailable every operation raises the
\* missing-dependency condition and writes no file
C3_AllOperationsCheckLibrary ==
    (~libAvailable /\ last.op \in Operations)
        => (last.exc = MissingDependencyException /\ last.wrote = {})

\* C3 amended: with the library unavailable, pack and load raise the
\* missing-dependency condition before looking at their argument or at any
\* file, and no operation writes a file; get, set_dependencies and save make
\* no availability check: get returns absence, set_dependencies records the
\* package, save fails with an error of another kind
C3_PackLoadCheckLibrary ==
    ~libAvailable =>
        /\ last.op \in {"pack", "load"}
              => (last.exc = MissingDependencyException /\ last.read = {})
        /\ last.wrote = {}
        /\ \A p \in AllPaths : fs[p] = Missing
        /\ _model = None
        /\ last.op = "get" => (last.exc = NoExc /\ last.ret = ObjectRef(None))
        /\ last.op = "set_dependencies"
              => (last.exc = NoExc /\ "catboost" \in pip_packages)
        /\ last.op = "save" => last.exc = AttributeError

C3_Witness ==
    /\ ~libAvailable
    /\ last.op = "load"
    /\ last.exc = MissingDependencyException
    /\ "catboost" \in pip_packages

\* <dir>/<name><extension> read as a string
SlashPath(dir) == dir \o <<Sep>> \o name \o _model_extension

\* os.path.join(dir, name + extension) for a name that does not begin with
\* a separator
JoinedPath(dir) ==
    IF dir = <<>> \/ dir[Len(dir)] = Sep
    THEN dir \o name \o _model_extension
    ELSE dir \o <<Sep>> \o name \o _model_extension

\* C4 as stated: the file save writes and the file load reads is
\* <dir>/<name><extension> for every base directory
C4_PathIsDirSlashName ==
    last.op \in {"save", "load"}
        => (last.read \cup last.wrote) \subseteq {SlashPath(last.dir)}

\* C4 amended: the file save(dir) writes and the file load(dir) reads is the
\* same, os.path.join(dir, name + extension): it is <dir>/<name><extension>
\* when dir is not empty and does not end with a separator, and
\* <dir><name><extension> otherwise; it depends on nothing else, every
\* load that passes the import reads exactly that file, every successful
\* save writes exactly that file, and no other file changes
C4_PathIsJoin ==
    [][ /\ last'.op = "load"
            => /\ last'.read \subseteq {JoinedPath(last'.dir)}
               /\ last'.wrote = {}
               /\ libAvailable => last'.read = {JoinedPath(last'.dir)}
               /\ fs' = fs
        /\ last'.op = "save"
            => /\ last'.wrote \subseteq {JoinedPath(last'.dir)}
               /\ last'.read = {}
               /\ last'.exc = NoExc => last'.wrote = {JoinedPath(last'.dir)}
               /\ \A p \in AllPaths : fs'[p] # fs[p] => p \in last'.wrote ]_vars

C4_Witness ==
    /\ last.op = "save" /\ last.exc = NoExc
    /\ last.dir = <<>>
    /\ _model_extension # DefaultExtension
    /\ fs[name \o _model_extension].kind = "model"

\* C5: a file written by save (of a packed model m) is loaded successfully
\* by load from the same directory under the same name and extension, for
\* the default and for a non-default extension, and the model held
\* afterwards predicts as m does and is a new object, not m
C5_SaveLoadRoundTrip ==
    [][ (last'.op = "load" /\ libAvailable)
          => \A p \in last'.read :
                fs[p].kind = "model"
                  => /\ last'.exc = NoExc
                     /\ _model' \in DOMAIN heap'
                     /\ heap'[_model'].cls = CatBoostClassifier
                     /\ heap'[_model'].pred = heap[fs[p].src].pred
                     /\ _model' # fs[p].src ]_vars

C5_Witness ==
    /\ last.op = "load" /\ last.exc = NoExc
    /\ _model_extension # DefaultExtension
    /\ \E p \in last.read :
          /\ fs[p].kind = "model"
          /\ last.before # None /\ last.before # fs[p].src
          /\ heap[last.before].pred # heap[fs[p].src].pred
          /\ heap[_model].pred = heap[fs[p].src].pred

\* C6: a successful pack and a successful load return the artifact itself,
\* not the model and not another artifact
C6_FluentReturn ==
    (last.op \in {"pack", "load"} /\ last.exc = NoExc)
        => last.ret = [kind |-> "artifact", ref |-> Self]

C6_Witness ==
    /\ last.op = "load" /\ last.exc = NoExc
    /\ last.ret = [kind |-> "artifact", ref |-> Self]

\* C7: get() changes nothing (not the held reference, not a file, not the
\* declared packages), returns the held reference, so that a repeated get()
\* returns the same value, and on a freshly constructed artifact returns
\* absence without failing
C7_GetHasNoEffect ==
    [][ /\ last'.op = "get"
            => /\ last'.exc = NoExc
               /\ last'.ret = ObjectRef(_model)
               /\ last'.read = {} /\ last'.wrote = {}
               /\ UNCHANGED <<_model, heap, fs, pip_packages, name,
                              _model_extension>>
        /\ (last.op = "init" /\ last'.op = "get")
            => (last'.exc = NoExc /\ last'.ret = ObjectRef(None))
        /\ (last.op = "get" /\ last'.op = "pack" /\ last'.exc # NoExc)
            => last.ret = ObjectRef(_model') ]_vars

C7_Witness ==
    /\ last.op = "get" /\ last.exc = NoExc
    /\ last.ret = ObjectRef(None)
    /\ \A p \in AllPaths : fs[p] = Missing

\* C8: after any sequence of calls the held reference is absent or an object
\* of the classifier type
C8_HeldIsClassifier ==
    _model = None \/ (_model \in DOMAIN heap /\ heap[_model].cls = CatBoostClassifier)

C8_Witness ==
    /\ last.op = "pack" /\ last.exc = InvalidArgument
    /\ last.obj # None
    /\ _model # None /\ heap[_model].cls = CatBoostClassifier

\* C9: a load that fails, with the missing-dependency condition or with a
\* library error, leaves the held reference unchanged; a load that succeeds
\* has read a model file and replaces the held reference by the newly
\* constructed classifier
C9_FailedLoadKeepsReference ==
    [][ last'.op = "load"
          => IF last'.exc # NoExc
             THEN /\ last'.exc \in {MissingDependencyException, CatBoostError}
                  /\ _model' = _model
             ELSE /\ \A p \in last'.read : fs[p].kind = "model"
                  /\ last'.read # {}
                  /\ _model' \notin DOMAIN heap
                  /\ _model' # _model
                  /\ _model' = last'.obj
                  /\ heap'[_model'].cls = CatBoostClassifier ]_vars

C9_Witness ==
    /\ last.op = "load" /\ last.exc = CatBoostError
    /\ last.before # None /\ _model = last.before
    /\ \E p \in last.read : fs[p] = Garbage

\* C10: save never changes the held reference, and save while no model is
\* held fails with an error that is neither MissingDependencyException nor
\* InvalidArgument and writes no file
C10_SaveKeepsReference ==
    [][ last'.op = "save"
          => /\ _model' = _model
             /\ _model = None
                  => /\ last'.exc \notin {NoExc, MissingDependencyException,
                                          InvalidArgument}
                     /\ last'.wrote = {}
                     /\ fs' = fs ]_vars

C10_Witness ==
    /\ last.op = "save" /\ last.exc = AttributeError
    /\ libAvailable
    /\ last.before = None /\ _model = None

====
